---- MODULE Spec2Model ----
(***************************************************************************)
(* The scheduling engine of medschedulr-python-api: run_prime_scheduler    *)
(* (prime_scheduler_wrapper.py).  A request is expanded into a calendar,   *)
(* a post catalogue and an availability index; build_and_solve builds the  *)
(* 0/1 program of Phase 1 (strict) and, when Phase 1 is not optimal, of    *)
(* Phase 2 (coverage relaxed by Big-M slack); the adopted valuation is     *)
(* extracted into assignment rows.                                         *)
(*                                                                         *)
(* A date is a day number whose weekday is (date % 7), 0 = Monday.  The    *)
(* CBC solver is an oracle: it returns status optimal with a minimiser of  *)
(* the objective over the feasible set, optimal_inaccurate with any        *)
(* feasible valuation (time budget expired), or a failure status.          *)
(***************************************************************************)
EXTENDS Integers, Sequences, FiniteSets, TLC

VARIABLES config, pc, date_list, posts_weekday, posts_weekend, oncall_posts,
          availability, weekend_pairs, problem1, problem2, final_problem, response,
          solver_calls, running_jobs, cancel_accepted, job_status, http_reply, previous

vars == <<config, pc, date_list, posts_weekday, posts_weekend, oncall_posts,
          availability, weekend_pairs, problem1, problem2, final_problem, response,
          solver_calls, running_jobs, cancel_accepted, job_status, http_reply, previous>>

\* what run_prime_scheduler computes before the first solve
prepared == <<date_list, posts_weekday, posts_weekend, oncall_posts, availability,
              weekend_pairs>>

\* main.py: the job registry, the jobs cancel_job has cancelled, and the last
\* JobStatus that get_job_status returned
registry == <<running_jobs, cancel_accepted, job_status>>

(***************************************************************************)
(* Bounds of the request universe.                                         *)
(***************************************************************************)
\* explicit availability records with available = true in one request
MaxTrue == 3
\* explicit availability records with available = false in one request
MaxFalse == 1
\* the same two bounds for the requests posted to the job endpoints
MaxJobTrue == 1
MaxJobFalse == 1
\* the most days between roster_start and roster_end of a calendar request
MaxHorizon == 15

(***************************************************************************)
(* solver_config defaults.                                                 *)
(***************************************************************************)
lambda_before_clinic == 10
lambda_same_clinic == 50
lambda_after_clinic == 5
lambda_rest == 3
lambda_gap == 1
lambda_ED == 6
lambda_standby == 5
lambda_min_one == 10
lambda_reg_weekend == 2
lambda_unit_over == 25
lambda_junior_ward == 6
BIG_M == 10000

(***************************************************************************)
(* Post names.                                                             *)
(***************************************************************************)
StandbyOncall == "Standby Oncall"

\* f"clinic:{unit_name}"
ClinicPost(u) == "clinic:" \o u

UnitNames == {"U1", "U2"}

\* t.startswith("clinic:")
StartsWithClinic(t) == \E u \in UnitNames : t = ClinicPost(u)

\* t.split(":", 1)[1]
SplitUnitName(t) == CHOOSE u \in UnitNames : t = ClinicPost(u)

\* t.startswith("Ward")
StartsWithWard(t) == t \in {"Ward3"}

\* t.startswith("ED")
StartsWithED(t) == t \in {"ED1"}

\* date.weekday(), 0 = Monday .. 6 = Sunday
Weekday(date) == date % 7

(***************************************************************************)
(* The requests.  A request shape fixes the horizon, the doctors, the      *)
(* units and the post lists; the availability records vary over it.        *)
(***************************************************************************)
DoctorUnit ==
    [d1 |-> "U1", d2 |-> "U1", d3 |-> "U2", d4 |-> "U2", d5 |-> "U1", d6 |-> "U9",
     d7 |-> "U1"]
DoctorCategory ==
    [d1 |-> "senior", d2 |-> "junior", d3 |-> "registrar", d4 |-> "floater",
     d5 |-> "consultant", d6 |-> "junior", d7 |-> "senior"]

\* the categories the engine knows
Categories == {"floater", "junior", "senior", "registrar"}

\* the doctors[] of a request: id -> {unit, category}
DoctorsOf(ids) == [d \in ids |-> [unit |-> DoctorUnit[d], category |-> DoctorCategory[d]]]

\* Monday: U1 has clinic on Mondays, U2 on Tuesdays and Saturdays
ShapeMonday ==
    [roster_start |-> 0, roster_end |-> 0,
     doctors |-> DoctorsOf({"d1", "d2", "d3"}), units |-> [U1 |-> {0}, U2 |-> {1, 5}],
     posts_weekday |-> {"ED1"}, posts_weekend |-> {"Ward3", StandbyOncall}]

\* Monday, Tuesday
ShapeWeekdays ==
    [roster_start |-> 0, roster_end |-> 1,
     doctors |-> DoctorsOf({"d1", "d4"}), units |-> [U1 |-> {0}, U2 |-> {1, 5}],
     posts_weekday |-> {"ED1"}, posts_weekend |-> {"Ward3", StandbyOncall}]

\* Saturday, Sunday: one weekend pair
ShapeWeekend ==
    [roster_start |-> 5, roster_end |-> 6,
     doctors |-> DoctorsOf({"d1", "d2", "d3"}), units |-> [U1 |-> {0}, U2 |-> {1, 5}],
     posts_weekday |-> {"ED1"}, posts_weekend |-> {"Ward3", StandbyOncall}]

\* Saturday .. Sunday of the next week: two adjacent weekend pairs
ShapeTwoWeekends ==
    [roster_start |-> 5, roster_end |-> 13,
     doctors |-> DoctorsOf({"d1", "d2"}), units |-> [U1 |-> {}],
     posts_weekday |-> {}, posts_weekend |-> {StandbyOncall}]

\* Saturday .. Sunday two weeks later: three weekend pairs
ShapeThreeWeekends ==
    [roster_start |-> 5, roster_end |-> 20,
     doctors |-> DoctorsOf({"d1"}), units |-> [U1 |-> {}],
     posts_weekday |-> {}, posts_weekend |-> {StandbyOncall}]

Shapes == {ShapeMonday, ShapeWeekdays, ShapeWeekend, ShapeTwoWeekends, ShapeThreeWeekends}

\* roster_start after roster_end
ShapeInverted ==
    [roster_start |-> 1, roster_end |-> 0,
     doctors |-> DoctorsOf({"d1"}), units |-> [U1 |-> {0}],
     posts_weekday |-> {"ED1"}, posts_weekend |-> {StandbyOncall}]

\* Monday, with a doctor of a category outside Categories
ShapeUnknownCategory ==
    [roster_start |-> 0, roster_end |-> 0,
     doctors |-> DoctorsOf({"d5"}), units |-> [U1 |-> {0}],
     posts_weekday |-> {"ED1"}, posts_weekend |-> {StandbyOncall}]

\* Monday, with a doctor whose unit is not in units
ShapeUnknownUnit ==
    [roster_start |-> 0, roster_end |-> 0,
     doctors |-> DoctorsOf({"d1", "d6"}), units |-> [U1 |-> {0}],
     posts_weekday |-> {"ED1"}, posts_weekend |-> {StandbyOncall}]

\* the shapes of the requests posted to /schedule/generate
JobShapes ==
    {ShapeMonday, ShapeTwoWeekends, ShapeInverted, ShapeUnknownCategory, ShapeUnknownUnit}

\* the posts of a date of the shape, clinic posts included
ShapePosts(sh, date) ==
    IF Weekday(date) >= 5 THEN sh.posts_weekend
    ELSE sh.posts_weekday \cup {ClinicPost(u) : u \in DOMAIN sh.units}

AllPostNames == {"ED1", "Ward3", StandbyOncall, "clinic:U1", "clinic:U2"}

\* the (doctor, date, post) cells of a shape's horizon
ShapeCells(sh) ==
    {c \in (DOMAIN sh.doctors) \X (sh.roster_start..sh.roster_end) \X AllPostNames :
        c[3] \in ShapePosts(sh, c[2])}

\* the cells a missing record defaults to true
ShapeDefaultTrue(sh) ==
    {c \in ShapeCells(sh) :
        /\ StartsWithClinic(c[3])
        /\ sh.doctors[c[1]].unit = SplitUnitName(c[3])
        /\ Weekday(c[2]) \in sh.units[SplitUnitName(c[3])]}

\* the job ids of generate_schedule
JobIds == {"job_1"}

\* the ids the status and cancel endpoints are called with: one is never issued
RequestedIds == JobIds \cup {"job_0"}

RECURSIVE SubsetsUpTo(_, _)
\* the subsets of S with at most k elements
SubsetsUpTo(S, k) ==
    IF k = 0 THEN {{}}
    ELSE LET P == SubsetsUpTo(S, k - 1) IN P \cup {p \cup {e} : p \in P, e \in S}

\* availability[]: at most MaxTrue records with available = true and at most
\* MaxFalse with available = false, one record per (doctor, date, post).  A
\* record with available = false is drawn only where the default is true:
\* anywhere else it reads the same as no record.
Record(c, a) == [doctor_id |-> c[1], date |-> c[2], post |-> c[3], available |-> a]

\* a request without workload_data
NoWorkloadData == <<>>

RequestsOf(shapes, maxTrue, maxFalse) ==
    UNION {
        UNION {
            {[roster_start |-> sh.roster_start, roster_end |-> sh.roster_end,
              doctors |-> sh.doctors, units |-> sh.units,
              posts_weekday |-> sh.posts_weekday, posts_weekend |-> sh.posts_weekend,
              availability |->
                {Record(c, TRUE) : c \in T} \cup {Record(c, FALSE) : c \in F},
              workload_data |-> NoWorkloadData]
             : F \in SubsetsUpTo(ShapeDefaultTrue(sh) \ T, maxFalse)}
        : T \in SubsetsUpTo(ShapeCells(sh), maxTrue)}
    : sh \in shapes}

\* the requests run_prime_scheduler is called with directly
Requests == RequestsOf(Shapes, MaxTrue, MaxFalse)

\* the requests of the runs whose schedule is fed back as availability
RerunShapes == {ShapeMonday, ShapeWeekend}
RerunRequests == RequestsOf(RerunShapes, MaxTrue, MaxFalse)

\* one weekend, and two adjacent ones, with Standby Oncall as the only post
\* and two doctors of the same unit and category
ShapeStandbyWeekend ==
    [roster_start |-> 5, roster_end |-> 6,
     doctors |-> DoctorsOf({"d1", "d7"}), units |-> [U1 |-> {}],
     posts_weekday |-> {}, posts_weekend |-> {StandbyOncall}]

ShapeStandbyTwoWeekends ==
    [roster_start |-> 5, roster_end |-> 13,
     doctors |-> DoctorsOf({"d1", "d7"}), units |-> [U1 |-> {}],
     posts_weekday |-> {}, posts_weekend |-> {StandbyOncall}]

\* one weekend, two doctors of different units
ShapeStandbyTwoUnits ==
    [roster_start |-> 5, roster_end |-> 6,
     doctors |-> DoctorsOf({"d1", "d3"}), units |-> [U1 |-> {}, U2 |-> {}],
     posts_weekday |-> {}, posts_weekend |-> {StandbyOncall}]

\* the workload_data entry of a doctor: one per branch of the Standby penalty
Workload(count_12m, count_3m, days) ==
    [standby_count_12m |-> count_12m, standby_count_3m |-> count_3m,
     days_since_last_standby |-> days]

Workloads ==
    {Workload(1, 1, 30), Workload(0, 1, 30), Workload(0, 0, 100), Workload(0, 0, 365),
     Workload(0, 0, 370), Workload(0, 0, 800)}

\* workload_data[]: an entry for some of the doctors
WorkloadDataOf(ids) ==
    UNION {[given -> Workloads] : given \in SUBSET ids}

\* the Standby Oncall cells of a shape's horizon
StandbyCells(sh) == {c \in ShapeCells(sh) : c[3] = StandbyOncall}

\* the requests of a Standby-only shape: every set of available cells, with
\* each of the given workload_data
StandbyRequestsOf(sh, workloads) ==
    {[roster_start |-> sh.roster_start, roster_end |-> sh.roster_end,
      doctors |-> sh.doctors, units |-> sh.units,
      posts_weekday |-> sh.posts_weekday, posts_weekend |-> sh.posts_weekend,
      availability |-> {Record(c, TRUE) : c \in T},
      workload_data |-> wl]
     : T \in SUBSET StandbyCells(sh), wl \in workloads}

\* the one-weekend requests of two like doctors carry workload_data
StandbyRequests ==
    StandbyRequestsOf(ShapeStandbyWeekend, WorkloadDataOf(DOMAIN ShapeStandbyWeekend.doctors))
    \cup StandbyRequestsOf(ShapeStandbyTwoUnits, {NoWorkloadData})
    \cup StandbyRequestsOf(ShapeStandbyTwoWeekends, {NoWorkloadData})

\* one doctor, Standby Oncall only, the days a .. b
ShapeCalendar(a, b) ==
    [roster_start |-> a, roster_end |-> b,
     doctors |-> DoctorsOf({"d1"}), units |-> [U1 |-> {}],
     posts_weekday |-> {}, posts_weekend |-> {StandbyOncall}]

\* the horizons that start on each day of the week and last up to MaxHorizon
\* more days, with every set of weekend days the doctor is available on
CalendarRequests ==
    UNION {UNION {StandbyRequestsOf(ShapeCalendar(a, a + n), {NoWorkloadData})
                  : n \in 0..MaxHorizon}
           : a \in 0..6}

\* availability records of a request dated on the day before roster_start (if
\* any) or the day after roster_end
OutsideRecords(r) ==
    {[doctor_id |-> d, date |-> date, post |-> t, available |-> a]
     : d \in DOMAIN r.doctors,
       date \in {r.roster_start - 1, r.roster_end + 1} \ {-1},
       t \in {"ED1", "clinic:U1"}, a \in BOOLEAN}

\* weekday requests with one more record, dated outside the horizon
OutsideRequests ==
    UNION {{[r EXCEPT !.availability = @ \cup {o}] : o \in OutsideRecords(r)}
           : r \in RequestsOf({ShapeMonday, ShapeWeekdays}, MaxJobTrue, MaxJobFalse)}

\* Monday, Tuesday, Wednesday: ED1 is on call every day
ShapeThreeDays ==
    [roster_start |-> 0, roster_end |-> 2,
     doctors |-> DoctorsOf({"d1", "d3"}), units |-> [U1 |-> {0}, U2 |-> {1, 5}],
     posts_weekday |-> {"ED1"}, posts_weekend |-> {"Ward3", StandbyOncall}]

\* the three-day requests: every set of days each doctor is available for ED1
GapRequests ==
    {[roster_start |-> ShapeThreeDays.roster_start, roster_end |-> ShapeThreeDays.roster_end,
      doctors |-> ShapeThreeDays.doctors, units |-> ShapeThreeDays.units,
      posts_weekday |-> ShapeThreeDays.posts_weekday,
      posts_weekend |-> ShapeThreeDays.posts_weekend,
      availability |-> {Record(c, TRUE) : c \in T},
      workload_data |-> NoWorkloadData]
     : T \in SUBSET {c \in ShapeCells(ShapeThreeDays) : c[3] = "ED1"}}

\* the requests that exercise the input handling of run_prime_scheduler
InputRequests == CalendarRequests \cup OutsideRequests

\* the requests posted to /schedule/generate
JobRequests == RequestsOf(JobShapes, MaxJobTrue, MaxJobFalse)

(***************************************************************************)
(* run_prime_scheduler: calendar, post catalogue, availability index.      *)
(***************************************************************************)
NoProblem == [status |-> "none", x |-> {}, y |-> {}]
\* Python's None, and a key that a dict does not hold
None == "None"

\* pairing_warnings = []
pairing_warnings == {}

NoResponse == [success |-> FALSE, schedule |-> {}, solver_status |-> "none",
               weekend_assignments |-> 0, warnings |-> {}, error |-> None]

\* the registry before any request, and no JobStatus returned yet
NoJobs == <<>>
NoJobStatus ==
    [status |-> "none", progress |-> 0, result |-> {}, error |-> None, updated_at |-> 0]

\* no handler has answered yet
NoReply == "none"

\* no earlier run of the engine whose schedule became the availability
NoPrevious == [run |-> 0, schedule |-> {}, phase |-> 0, exact |-> FALSE]

\* the locals and the registry before anything has run
InitLocals ==
    /\ date_list = <<>>
    /\ posts_weekday = {}
    /\ posts_weekend = {}
    /\ oncall_posts = {}
    /\ availability = <<>>
    /\ weekend_pairs = <<>>
    /\ problem1 = "none"
    /\ problem2 = "none"
    /\ final_problem = NoProblem
    /\ response = NoResponse
    /\ solver_calls = 0
    /\ running_jobs = NoJobs
    /\ cancel_accepted = {}
    /\ job_status = NoJobStatus
    /\ http_reply = NoReply
    /\ previous = NoPrevious

Init ==
    /\ config \in Requests
    /\ pc = "start"
    /\ InitLocals

\* the engine is about to be run on a request, and then on its own output
InitRerun ==
    /\ config \in RerunRequests
    /\ pc = "start"
    /\ InitLocals

\* the engine is about to be run on a request that exercises its input handling
InitInput ==
    /\ config \in InputRequests
    /\ pc = "start"
    /\ InitLocals

\* the engine is about to be run on a three-day request
InitGap ==
    /\ config \in GapRequests
    /\ pc = "start"
    /\ InitLocals

\* the engine is about to be run on a Standby-only request
InitStandby ==
    /\ config \in StandbyRequests
    /\ pc = "start"
    /\ InitLocals

\* a request is about to be posted to /schedule/generate
InitJob ==
    /\ config \in JobRequests
    /\ pc = "idle"
    /\ InitLocals

\* date_list: the dates roster_start .. roster_end, indexed from 0
DateList(cfg) ==
    [s \in 0..(cfg.roster_end - cfg.roster_start) |-> cfg.roster_start + s]

\* posts_weekday: the caller's list plus clinic:<unit> for every unit
PostsWeekday(cfg) == cfg.posts_weekday \cup {ClinicPost(u) : u \in DOMAIN cfg.units}

\* oncall_posts: every post of either list that is not a clinic post of a unit
OncallPosts(cfg) ==
    (PostsWeekday(cfg) \cup cfg.posts_weekend) \ {ClinicPost(u) : u \in DOMAIN cfg.units}

D == DOMAIN config.doctors
S == DOMAIN date_list
doctor_info == config.doctors
clinic_days == config.units

\* clinic_days.get(unit_name, [])
ClinicDaysGet(u) == IF u \in DOMAIN clinic_days THEN clinic_days[u] ELSE {}

\* posts_by_day[s]
posts_by_day(s) == IF Weekday(date_list[s]) >= 5 THEN posts_weekend ELSE posts_weekday

PostsByDayOf(cfg, dl, s) ==
    IF Weekday(dl[s]) >= 5 THEN cfg.posts_weekend ELSE PostsWeekday(cfg)

\* a variant of ExplicitKeys that keeps the records dated outside date_list
ExplicitKeys_AnyDate(cfg, dl) ==
    {<<r.doctor_id, r.date - cfg.roster_start, r.post>> : r \in cfg.availability}

\* the explicit records whose date is in date_list, keyed (doctor, index, post)
ExplicitKeys(cfg, dl) ==
    {<<r.doctor_id, r.date - cfg.roster_start, r.post>> :
        r \in {q \in cfg.availability : \E s \in DOMAIN dl : dl[s] = q.date}}

ExplicitValue(cfg, key) ==
    (CHOOSE r \in cfg.availability :
        /\ r.doctor_id = key[1]
        /\ r.date - cfg.roster_start = key[2]
        /\ r.post = key[3]).available

\* the value a (doctor, day, post) without a record is given
DefaultAvailable(cfg, dl, d, s, t) ==
    IF StartsWithClinic(t)
    THEN /\ cfg.doctors[d].unit = SplitUnitName(t)
         /\ Weekday(dl[s]) \in (IF SplitUnitName(t) \in DOMAIN cfg.units
                                THEN cfg.units[SplitUnitName(t)] ELSE {})
    ELSE FALSE

\* availability after the records are read and the missing cells are filled
AvailabilityIndex(cfg, dl) ==
    LET explicit == ExplicitKeys(cfg, dl)
        filled == {c \in (DOMAIN cfg.doctors) \X (DOMAIN dl) \X AllPostNames :
                      c[3] \in PostsByDayOf(cfg, dl, c[2])}
    IN [c \in explicit \cup filled |->
           IF c \in explicit THEN ExplicitValue(cfg, c)
           ELSE DefaultAvailable(cfg, dl, c[1], c[2], c[3])]

\* availability.get((d, s, t), False)
Available(d, s, t) ==
    IF <<d, s, t>> \in DOMAIN availability THEN availability[<<d, s, t>>] ELSE FALSE

\* weekend_pairs: (s, s+1) with a Saturday followed by a Sunday, in order
RECURSIVE WeekendPairsFrom(_, _)
WeekendPairsFrom(dl, s) ==
    IF s + 1 \notin DOMAIN dl THEN <<>>
    ELSE (IF Weekday(dl[s]) = 5 /\ Weekday(dl[s + 1]) = 6 THEN <<<<s, s + 1>>>> ELSE <<>>)
         \o WeekendPairsFrom(dl, s + 1)

\* a variant of WeekendPairs that starts looking at the second day
WeekendPairs_FromSecondDay(dl) == WeekendPairsFrom(dl, 1)

WeekendPairs(dl) == WeekendPairsFrom(dl, 0)

\* lines 85-269: everything before the first build_and_solve
Prepare ==
    /\ pc = "start"
    /\ date_list' = DateList(config)
    /\ posts_weekday' = PostsWeekday(config)
    /\ posts_weekend' = config.posts_weekend
    /\ oncall_posts' = OncallPosts(config)
    /\ availability' = AvailabilityIndex(config, DateList(config))
    /\ weekend_pairs' = WeekendPairs(DateList(config))
    /\ pc' = "phase1"
    /\ UNCHANGED <<config, problem1, problem2, final_problem, response, solver_calls,
                   registry,
                   http_reply, previous>>

(***************************************************************************)
(* build_and_solve: the variables.  x has a key (d, s, t) for every post t *)
(* of day s with availability true; y has a key (d, w) for every doctor    *)
(* and weekend.  A valuation [x, y] is the sets of keys valued 1.          *)
(***************************************************************************)
\* a variant of XKeys that creates a variable for every cell of the table
XKeys_Unfiltered ==
    {c \in D \X S \X AllPostNames : c[3] \in posts_by_day(c[2])}

XKeys ==
    {c \in D \X S \X AllPostNames : c[3] \in posts_by_day(c[2]) /\ Available(c[1], c[2], c[3])}

\* the weekend indices 0 .. len(weekend_pairs) - 1
W == 0..(Len(weekend_pairs) - 1)

sat_day(w) == weekend_pairs[w + 1][1]
sun_day(w) == weekend_pairs[w + 1][2]

YKeys == D \X W

(***************************************************************************)
(* A constraint is a row                                                   *)
(*     sum(xpos) - sum(xneg) + sum(ypos) - sum(yneg)  sense  rhs           *)
(* which may own one more variable, aux, that relaxes it (added on the     *)
(* left of >=, subtracted on the left of <=) and enters penalty_terms with *)
(* the row's weight: "nonneg" is cp.Variable(nonneg=True), "boolean" is    *)
(* cp.Variable(boolean=True).                                              *)
(***************************************************************************)
Hard(name, xpos, xneg, ypos, yneg, sense, rhs) ==
    [name |-> name, xpos |-> xpos, xneg |-> xneg, ypos |-> ypos, yneg |-> yneg,
     sense |-> sense, rhs |-> rhs, aux |-> "none", weight |-> 0]

Soft(name, xpos, ypos, sense, rhs, aux, weight) ==
    [name |-> name, xpos |-> xpos, xneg |-> {}, ypos |-> ypos, yneg |-> {},
     sense |-> sense, rhs |-> rhs, aux |-> aux, weight |-> weight]

\* the keys of one (day, post) over all doctors
AssignedVars(x, s, t) == {c \in x : c[2] = s /\ c[3] = t}

\* the (day, post) slots that have a variable
CoverageSlots(x) == {<<c[2], c[3]>> : c \in x}

\* a variant of CoverageRows that relaxes the coverage in both phases
CoverageRows_AlwaysSoft(x, RELAX) ==
    {Soft(<<"coverage", st>>, AssignedVars(x, st[1], st[2]), {}, ">=", 1, "nonneg", BIG_M)
     : st \in CoverageSlots(x)}

\* each post is covered: == 1 in Phase 1, + slack >= 1 with BIG_M * slack in Phase 2
CoverageRows(x, RELAX) ==
    {IF RELAX
     THEN Soft(<<"coverage", st>>, AssignedVars(x, st[1], st[2]), {}, ">=", 1, "nonneg", BIG_M)
     ELSE Hard(<<"coverage", st>>, AssignedVars(x, st[1], st[2]), {}, {}, {}, "=", 1)
     : st \in CoverageSlots(x)}

\* a variant of OnePostPerDayRows without the rows
OnePostPerDayRows_Dropped(x) == {}

\* each doctor works at most one post per day (always hard)
OnePostPerDayRows(x) ==
    {Hard(<<"day", ds>>, {c \in x : c[1] = ds[1] /\ c[2] = ds[2]}, {}, {}, {}, "<=", 1)
     : ds \in {<<c[1], c[2]>> : c \in x}}

\* the clinic keys of the unit's own doctors on one day
ClinicVars(x, u, s) ==
    {c \in x : c[2] = s /\ c[3] = ClinicPost(u) /\ doctor_info[c[1]].unit = u}

\* the (unit, day) pairs that get a clinic constraint
ClinicSlots(x) ==
    {us \in (DOMAIN clinic_days) \X S :
        /\ Weekday(date_list[us[2]]) \in clinic_days[us[1]]
        /\ ClinicPost(us[1]) \in posts_by_day(us[2])
        /\ ClinicVars(x, us[1], us[2]) # {}}

\* a variant of ClinicRows without the rows
ClinicRows_Dropped(x, RELAX) == {}

\* one doctor of the unit does the clinic on each clinic day
ClinicRows(x, RELAX) ==
    {IF RELAX
     THEN Soft(<<"clinic", us>>, ClinicVars(x, us[1], us[2]), {}, ">=", 1, "nonneg", BIG_M)
     ELSE Hard(<<"clinic", us>>, ClinicVars(x, us[1], us[2]), {}, {}, {}, "=", 1)
     : us \in ClinicSlots(x)}

SatVar(d, w) == <<d, sat_day(w), StandbyOncall>>
SunVar(d, w) == <<d, sun_day(w), StandbyOncall>>

\* a variant of StandbyLinkRows without the row y >= sat + sun - 1
StandbyLinkRows_UpperOnly(x) ==
    UNION {
        IF SatVar(dw[1], dw[2]) \in x /\ SunVar(dw[1], dw[2]) \in x
        THEN {Hard(<<"y<=sat", dw>>, {}, {SatVar(dw[1], dw[2])}, {dw}, {}, "<=", 0),
              Hard(<<"y<=sun", dw>>, {}, {SunVar(dw[1], dw[2])}, {dw}, {}, "<=", 0)}
        ELSE {Hard(<<"y==0", dw>>, {}, {}, {dw}, {}, "=", 0)}
        : dw \in YKeys}

\* 1. y[d,w] is the AND of the Saturday and Sunday Standby variables, or 0
StandbyLinkRows(x) ==
    UNION {
        IF SatVar(dw[1], dw[2]) \in x /\ SunVar(dw[1], dw[2]) \in x
        THEN {Hard(<<"y<=sat", dw>>, {}, {SatVar(dw[1], dw[2])}, {dw}, {}, "<=", 0),
              Hard(<<"y<=sun", dw>>, {}, {SunVar(dw[1], dw[2])}, {dw}, {}, "<=", 0),
              Hard(<<"y>=sat+sun-1", dw>>,
                   {SatVar(dw[1], dw[2]), SunVar(dw[1], dw[2])}, {}, {}, {dw}, "<=", 1)}
        ELSE {Hard(<<"y==0", dw>>, {}, {}, {dw}, {}, "=", 0)}
        : dw \in YKeys}

\* 2. a doctor with both Standby variables of a weekend has them equal, on
\* the weekends where each day has some Standby variable
StandbyPairingRows(x) ==
    {Hard(<<"sat==sun", dw>>, {SatVar(dw[1], dw[2])}, {SunVar(dw[1], dw[2])}, {}, {}, "=", 0)
     : dw \in {q \in YKeys :
                 /\ AssignedVars(x, sat_day(q[2]), StandbyOncall) # {}
                 /\ AssignedVars(x, sun_day(q[2]), StandbyOncall) # {}
                 /\ SatVar(q[1], q[2]) \in x
                 /\ SunVar(q[1], q[2]) \in x}}

\* 3. cooldown: y[d,w] + y[d,w+1] <= 1
CooldownRows ==
    {Hard(<<"cooldown", dw>>, {}, {}, {dw, <<dw[1], dw[2] + 1>>}, {}, "<=", 1)
     : dw \in {q \in YKeys : (q[2] + 1) \in W}}

\* a variant of MonthlyCapRows without the rows
MonthlyCapRows_Dropped == {}

\* 4. at most one Standby weekend per doctor per period
MonthlyCapRows ==
    {Hard(<<"cap", d>>, {}, {}, {d} \X W, {}, "<=", 1) : d \in {q \in D : W # {}}}

\* 5. multiple_weekend_penalty[d] >= sum_w y[d,w] - 1, 1000 * multiple_weekend_penalty[d]
MultipleWeekendRows ==
    {Soft(<<"multiple_weekend", d>>, {}, {d} \X W, "<=", 1, "nonneg", 1000)
     : d \in {q \in D : W # {}}}

\* the on-call keys of doctor d on day s
OncallVars(x, d, s) == {c \in x : c[1] = d /\ c[2] = s /\ c[3] \in oncall_posts}

is_standby_weekend(s) ==
    /\ Weekday(date_list[s]) = 5
    /\ Weekday(date_list[s + 1]) = 6
    /\ StandbyOncall \in posts_by_day(s)
    /\ StandbyOncall \in posts_by_day(s + 1)

NonStandby(keys) == {c \in keys : c[3] # StandbyOncall}

\* the keys the rest constraint of (d, s) sums over, {} when none is emitted
RestVars(x, d, s) ==
    LET oncall_today == OncallVars(x, d, s)
        oncall_tomorrow == OncallVars(x, d, s + 1)
    IN IF oncall_today = {} \/ oncall_tomorrow = {} THEN {}
       ELSE IF is_standby_weekend(s)
            THEN IF NonStandby(oncall_today) # {} /\ NonStandby(oncall_tomorrow) # {}
                 THEN NonStandby(oncall_today) \cup NonStandby(oncall_tomorrow)
                 ELSE {}
            ELSE oncall_today \cup oncall_tomorrow

\* rest: sum(today) + sum(tomorrow) <= 1 + rest_violation[d, s]
RestRows(x) ==
    {Soft(<<"rest", ds>>, RestVars(x, ds[1], ds[2]), {}, "<=", 1, "boolean", lambda_rest)
     : ds \in {q \in {<<c[1], c[2]>> : c \in x} :
                 (q[2] + 1) \in S /\ RestVars(x, q[1], q[2]) # {}}}

\* minimum one assignment for non-floaters: total + min_one_slack[d] >= 1
MinOneRows(x) ==
    {Soft(<<"min_one", d>>, {c \in x : c[1] = d}, {}, ">=", 1, "boolean", lambda_min_one)
     : d \in {q \in D : doctor_info[q].category # "floater"}}

\* a variant of GapRows that charges lambda_gap for z_gap instead of rewarding it
GapRows_Charged(x) ==
    {Soft(<<"gap", ds>>, OncallVars(x, ds[1], ds[2]) \cup OncallVars(x, ds[1], ds[2] + 2), {},
          "<=", 1, "boolean", lambda_gap)
     : ds \in {q \in {<<c[1], c[2]>> : c \in x} :
                 /\ (q[2] + 2) \in S
                 /\ OncallVars(x, q[1], q[2]) # {}
                 /\ OncallVars(x, q[1], q[2] + 2) # {}}}

\* gap: z_gap[d, s] >= sum(today) + sum(s + 2) - 1, weight -lambda_gap
GapRows(x) ==
    {Soft(<<"gap", ds>>, OncallVars(x, ds[1], ds[2]) \cup OncallVars(x, ds[1], ds[2] + 2), {},
          "<=", 1, "boolean", 0 - lambda_gap)
     : ds \in {q \in {<<c[1], c[2]>> : c \in x} :
                 /\ (q[2] + 2) \in S
                 /\ OncallVars(x, q[1], q[2]) # {}
                 /\ OncallVars(x, q[1], q[2] + 2) # {}}}

Max(a, b) == IF a >= b THEN a ELSE b
Min(a, b) == IF a <= b THEN a ELSE b

UnitDocs(u) == {d \in D : doctor_info[d].unit = u}

\* max(1, math.ceil(0.25 * len(unit_docs)))
UnitCap(u) == Max(1, (Cardinality(UnitDocs(u)) + 3) \div 4)

UnitAssignments(x, u, s) == {c \in x : c[1] \in UnitDocs(u) /\ c[2] = s}

\* unit over-coverage: sum - over_slack <= cap on the unit's non-clinic days
UnitOverRows(x) ==
    {Soft(<<"unit_over", us>>, UnitAssignments(x, us[1], us[2]), {}, "<=", UnitCap(us[1]),
          "nonneg", lambda_unit_over)
     : us \in {q \in (DOMAIN clinic_days) \X S :
                 /\ UnitDocs(q[1]) # {}
                 /\ Weekday(date_list[q[2]]) \notin ClinicDaysGet(q[1])
                 /\ UnitAssignments(x, q[1], q[2]) # {}}}

(***************************************************************************)
(* The penalty terms that are a weight times an x variable.  Weights are   *)
(* carried times 5, the denominator of the workload reward.                *)
(***************************************************************************)
Term(name, key, weight5) == [name |-> name, key |-> key, weight5 |-> weight5]

ClinicDayWeight(delta) ==
    IF delta = -1 THEN lambda_before_clinic
    ELSE IF delta = 0 THEN lambda_same_clinic
    ELSE lambda_after_clinic

\* clinic-day penalties: one term per clinic day s of d's unit, delta and
\* on-call key (d, s + delta, t)
ClinicDayTerms(x) ==
    {Term(<<"clinic_day", q[1], q[2]>>, q[3], 5 * ClinicDayWeight(q[2]))
     : q \in {r \in S \X {-1, 0, 1} \X {c \in x : c[3] \in oncall_posts} :
                /\ Weekday(date_list[r[1]]) \in ClinicDaysGet(doctor_info[r[3][1]].unit)
                /\ r[1] + r[2] = r[3][2]}}

\* workload_data.get(d, ...): the request's entry, or the zero record
WorkloadData(d) ==
    IF d \in DOMAIN config.workload_data THEN config.workload_data[d]
    ELSE [standby_count_12m |-> 0, standby_count_3m |-> 0, days_since_last_standby |-> 9999]

\* a variant of PenaltyMultiplier5 that ignores the workload history
PenaltyMultiplier5_Base(wd) == 5 * lambda_standby

\* penalty_multiplier of a doctor, times 5
PenaltyMultiplier5(wd) ==
    IF wd.standby_count_12m > 0 THEN 5 * (lambda_standby + 5000)
    ELSE IF wd.standby_count_3m > 0 THEN 5 * (lambda_standby + 2000)
    ELSE IF wd.days_since_last_standby < 365
         THEN 5 * (lambda_standby + Max(0, (365 - wd.days_since_last_standby) * 5))
    ELSE IF wd.days_since_last_standby > 365
         THEN Max(5, 5 * lambda_standby - Min(1000, wd.days_since_last_standby - 365))
    ELSE 5 * lambda_standby

\* workload-based Standby penalties
StandbyTerms(x) ==
    {Term(<<"standby", 0, 0>>, c, PenaltyMultiplier5(WorkloadData(c[1])))
     : c \in {q \in x : q[3] = StandbyOncall}}

\* registrar weekend penalty
RegistrarWeekendTerms(x) ==
    {Term(<<"reg_weekend", 0, 0>>, c, 5 * lambda_reg_weekend)
     : c \in {q \in x : /\ doctor_info[q[1]].category = "registrar"
                        /\ Weekday(date_list[q[2]]) >= 5
                        /\ q[3] \in oncall_posts
                        /\ q[3] # StandbyOncall}}

\* junior ward penalty
JuniorWardTerms(x) ==
    {Term(<<"junior_ward", 0, 0>>, c, 5 * lambda_junior_ward)
     : c \in {q \in x : doctor_info[q[1]].category = "junior" /\ StartsWithWard(q[3])}}

\* ED assignment penalties
EDTerms(x) ==
    {Term(<<"ED", 0, 0>>, c, 5 * lambda_ED)
     : c \in {q \in x : /\ doctor_info[q[1]].category \in {"senior", "registrar"}
                        /\ StartsWithED(q[3])}}

(***************************************************************************)
(* build_and_solve(RELAX): the program handed to the solver.               *)
(***************************************************************************)
Constraints(x, RELAX) ==
    CoverageRows(x, RELAX) \cup OnePostPerDayRows(x) \cup ClinicRows(x, RELAX)
    \cup StandbyLinkRows(x) \cup StandbyPairingRows(x) \cup CooldownRows
    \cup MonthlyCapRows \cup MultipleWeekendRows \cup RestRows(x)
    \cup MinOneRows(x) \cup GapRows(x) \cup UnitOverRows(x)

PenaltyTerms(x) ==
    ClinicDayTerms(x) \cup StandbyTerms(x) \cup RegistrarWeekendTerms(x)
    \cup JuniorWardTerms(x) \cup EDTerms(x)

Problem(RELAX) ==
    LET x == XKeys
    IN [x |-> x, y |-> YKeys, constraints |-> Constraints(x, RELAX),
        penalty_terms |-> PenaltyTerms(x)]

(***************************************************************************)
(* The solver oracle: feasibility and objective of a valuation.            *)
(***************************************************************************)
Lhs(r, v) ==
    Cardinality(r.xpos \cap v.x) - Cardinality(r.xneg \cap v.x)
    + Cardinality(r.ypos \cap v.y) - Cardinality(r.yneg \cap v.y)

\* by how much the row is missed without its aux variable
Shortfall(r, v) ==
    IF r.sense = ">=" THEN Max(0, r.rhs - Lhs(r, v))
    ELSE IF r.sense = "<=" THEN Max(0, Lhs(r, v) - r.rhs)
    ELSE IF Lhs(r, v) = r.rhs THEN 0 ELSE 2

\* some value of the row's aux variable satisfies the row
Satisfied(r, v) ==
    IF r.aux = "nonneg" /\ r.sense # "=" THEN TRUE
    ELSE IF r.aux = "boolean" /\ r.sense # "=" THEN Shortfall(r, v) <= 1
    ELSE Shortfall(r, v) = 0

\* weight * aux at the aux value a minimiser chooses: the least one the row
\* allows for a weight >= 0, the greatest one (1, boolean) for a reward
AuxCost(r, v) ==
    IF r.aux = "none" THEN 0
    ELSE IF r.weight >= 0 THEN r.weight * Shortfall(r, v)
    ELSE r.weight

\* the values of the row's aux variable that satisfy the row: 0 or 1 for a
\* boolean, anything from the shortfall up for a nonneg (one value above the
\* shortfall stands for all of them)
AuxValues(r, v) ==
    IF r.aux = "boolean" THEN {a \in {0, 1} : a >= Shortfall(r, v)}
    ELSE IF r.aux = "nonneg" THEN Shortfall(r, v)..(Shortfall(r, v) + 1)
    ELSE {}

\* the values of the aux variable that minimise its term weight * aux
OptimalAux(r, v) ==
    {a \in AuxValues(r, v) : \A b \in AuxValues(r, v) : r.weight * a <= r.weight * b}

RECURSIVE SumOver(_, _)
\* the sum of f[e] over the elements e of a set
SumOver(f, set) ==
    IF set = {} THEN 0
    ELSE LET e == CHOOSE q \in set : TRUE IN f[e] + SumOver(f, set \ {e})

\* the valuations that satisfy every constraint
FeasibleSet(prob) ==
    LET xrows == {r \in prob.constraints : r.ypos = {} /\ r.yneg = {}}
        yrows == prob.constraints \ xrows
    IN UNION {{[x |-> xs, y |-> ys]
               : ys \in {q \in SUBSET prob.y : \A r \in yrows : Satisfied(r, [x |-> xs, y |-> q])}}
              : xs \in {p \in SUBSET prob.x : \A r \in xrows : Satisfied(r, [x |-> p, y |-> {}])}}

\* the objective of a valuation, times 5; with no penalty term at all the
\* fallback objective, the number of assignments
Objective5(prob, v) ==
    LET soft == {r \in prob.constraints : r.aux # "none"}
    IN IF soft = {} /\ prob.penalty_terms = {} THEN 5 * Cardinality(v.x)
       ELSE 5 * SumOver([r \in soft |-> AuxCost(r, v)], soft)
            + SumOver([t \in prob.penalty_terms |-> IF t.key \in v.x THEN t.weight5 ELSE 0],
                      prob.penalty_terms)

\* the minimisers of the objective over the feasible set
OptimalSet(prob) ==
    LET F == FeasibleSet(prob)
        obj == [v \in F |-> Objective5(prob, v)]
    IN {v \in F : \A other \in F : obj[v] <= obj[other]}

(***************************************************************************)
(* Result extraction and the response.                                     *)
(***************************************************************************)
\* a variant of SolutionPresent that takes only optimal for a solution
SolutionPresent_OptimalOnly(status) == status = "optimal"

SolutionPresent(status) == status \in {"optimal", "optimal_inaccurate"}

\* one row {doctor, date, post} per x variable valued above 0.5
ExtractResults(fp) ==
    IF SolutionPresent(fp.status)
    THEN {[doctor |-> c[1], date |-> date_list[c[2]], post |-> c[3]] : c \in fp.x}
    ELSE {}

\* the number of (d, w) with y[d, w] valued above 0.5
WeekendAssignments(fp) ==
    IF SolutionPresent(fp.status) THEN Cardinality({dw \in D \X W : dw \in fp.y}) ELSE 0

\* a variant of Response that reports success whatever the status
Response_AlwaysSuccess(fp) ==
    [success |-> TRUE, schedule |-> ExtractResults(fp),
     solver_status |-> fp.status, weekend_assignments |-> WeekendAssignments(fp),
     warnings |-> pairing_warnings, error |-> None]

Response(fp) ==
    [success |-> SolutionPresent(fp.status), schedule |-> ExtractResults(fp),
     solver_status |-> fp.status, weekend_assignments |-> WeekendAssignments(fp),
     warnings |-> pairing_warnings, error |-> None]

\* the response of the except branch; str(e) of the exception is not empty
ErrorResponse ==
    [success |-> FALSE, schedule |-> {}, solver_status |-> "error",
     weekend_assignments |-> 0, warnings |-> {}, error |-> "exception"]

\* the statuses without a solution that a solve can end with and return
FailureStatuses == {"infeasible", "unbounded"}

Solved(status, v) == [status |-> status, x |-> v.x, y |-> v.y]

(***************************************************************************)
(* The two-phase driver.  Each solve is one step; the step that adopts a   *)
(* solution also extracts it and builds the response.                      *)
(***************************************************************************)
\* a variant of SolvePhase1Optimal that goes on to Phase 2 all the same
SolvePhase1Optimal_RunsPhase2 ==
    /\ pc = "phase1"
    /\ OptimalSet(Problem(FALSE)) # {}
    /\ problem1' = "optimal"
    /\ pc' = "phase2"
    /\ solver_calls' = solver_calls + 1
    /\ UNCHANGED <<config, prepared, problem2, final_problem, response, registry,
                   http_reply, previous>>

\* Phase 1 returns optimal: its solution is adopted
SolvePhase1Optimal ==
    /\ pc = "phase1"
    /\ \E v \in OptimalSet(Problem(FALSE)) :
          /\ final_problem' = Solved("optimal", v)
          /\ response' = Response(Solved("optimal", v))
    /\ problem1' = "optimal"
    /\ pc' = "done"
    /\ solver_calls' = solver_calls + 1
    /\ UNCHANGED <<config, prepared, problem2, registry,
                   http_reply, previous>>

\* Phase 1 has no feasible valuation: Phase 2 follows
SolvePhase1Infeasible ==
    /\ pc = "phase1"
    /\ FeasibleSet(Problem(FALSE)) = {}
    /\ problem1' = "infeasible"
    /\ pc' = "phase2"
    /\ solver_calls' = solver_calls + 1
    /\ UNCHANGED <<config, prepared, problem2, final_problem, response, registry,
                   http_reply, previous>>

\* Phase 1 stops on its time budget: the status is not optimal, Phase 2 follows
SolvePhase1TimeLimit ==
    /\ pc = "phase1"
    /\ problem1' = "optimal_inaccurate"
    /\ pc' = "phase2"
    /\ solver_calls' = solver_calls + 1
    /\ UNCHANGED <<config, prepared, problem2, final_problem, response, registry,
                   http_reply, previous>>

\* Phase 2 returns optimal
SolvePhase2Optimal ==
    /\ pc = "phase2"
    /\ \E v \in OptimalSet(Problem(TRUE)) :
          /\ final_problem' = Solved("optimal", v)
          /\ response' = Response(Solved("optimal", v))
    /\ problem2' = "optimal"
    /\ pc' = "done"
    /\ solver_calls' = solver_calls + 1
    /\ UNCHANGED <<config, prepared, problem1, registry,
                   http_reply, previous>>

\* Phase 2 stops on its time budget with a feasible valuation in hand
SolvePhase2TimeLimit ==
    /\ pc = "phase2"
    /\ \E v \in FeasibleSet(Problem(TRUE)) :
          /\ final_problem' = Solved("optimal_inaccurate", v)
          /\ response' = Response(Solved("optimal_inaccurate", v))
    /\ problem2' = "optimal_inaccurate"
    /\ pc' = "done"
    /\ solver_calls' = solver_calls + 1
    /\ UNCHANGED <<config, prepared, problem1, registry,
                   http_reply, previous>>

\* Phase 2 ends with a status that carries no solution
SolvePhase2Failure ==
    /\ pc = "phase2"
    /\ \E status \in FailureStatuses :
          /\ final_problem' = [status |-> status, x |-> {}, y |-> {}]
          /\ response' = Response([status |-> status, x |-> {}, y |-> {}])
          /\ problem2' = status
    /\ pc' = "done"
    /\ solver_calls' = solver_calls + 1
    /\ UNCHANGED <<config, prepared, problem1, registry,
                   http_reply, previous>>

\* a solve raises (CBC is not installed, or cvxpy raises SolverError): the
\* except branch builds the response
SolveRaises ==
    /\ pc \in {"phase1", "phase2"}
    /\ response' = ErrorResponse
    /\ solver_calls' = solver_calls + 1
    /\ pc' = "done"
    /\ UNCHANGED <<config, prepared, problem1, problem2, final_problem, registry,
                   http_reply, previous>>

(***************************************************************************)
(* The engine run again on its own output: same doctors, units, posts and  *)
(* dates, availability true exactly on the rows of the returned schedule   *)
(* and explicitly false on every other (doctor, day, post of that day).    *)
(***************************************************************************)
\* the solver proved its answer: no time limit, no failure status
ExactRun ==
    \/ problem1 = "optimal" /\ problem2 = "none"
    \/ problem1 = "infeasible" /\ problem2 = "optimal"

\* the availability list built from the returned schedule
RerunAvailability ==
    {[doctor_id |-> c[1], date |-> date_list[c[2]], post |-> c[3],
      available |-> ([doctor |-> c[1], date |-> date_list[c[2]], post |-> c[3]]
                        \in response.schedule)]
     : c \in {q \in D \X S \X AllPostNames : q[3] \in posts_by_day(q[2])}}

\* run_prime_scheduler is called again, on the schedule it has just returned
Rerun ==
    /\ pc = "done"
    /\ response.success
    /\ previous.run = 0
    /\ previous' = [run |-> 1, schedule |-> response.schedule,
                    phase |-> IF problem1 = "optimal" THEN 1 ELSE 2, exact |-> ExactRun]
    /\ config' = [config EXCEPT !.availability = RerunAvailability]
    /\ pc' = "start"
    /\ date_list' = <<>>
    /\ posts_weekday' = {}
    /\ posts_weekend' = {}
    /\ oncall_posts' = {}
    /\ availability' = <<>>
    /\ weekend_pairs' = <<>>
    /\ problem1' = "none"
    /\ problem2' = "none"
    /\ final_problem' = NoProblem
    /\ response' = NoResponse
    /\ solver_calls' = 0
    /\ UNCHANGED <<registry, http_reply>>

(***************************************************************************)
(* main.py: the job registry.  A job record is {status, progress, result,  *)
(* error, updated_at}; progress is in tenths, result is the set of at most *)
(* one response (empty for None), updated_at counts the writes of now().   *)
(* http_reply is the last answer of a handler.  The handlers and           *)
(* run_scheduler are                                                       *)
(* coroutines of one event loop: run_scheduler has no await, so from its   *)
(* first line to its last no handler runs (pc is "queued" before it and    *)
(* "finished" after it).                                                   *)
(***************************************************************************)
\* the event loop is free to run a handler
LoopFree == pc \in {"idle", "queued", "finished"}

\* POST /schedule/generate: the job record is created and the worker queued
generate_schedule(job_id) ==
    /\ pc = "idle"
    /\ job_id \notin DOMAIN running_jobs
    /\ running_jobs' = [j \in DOMAIN running_jobs \cup {job_id} |->
                          IF j = job_id
                          THEN [status |-> "pending", progress |-> 0, result |-> {},
                                error |-> None, updated_at |-> 0]
                          ELSE running_jobs[j]]
    /\ http_reply' = "200 Schedule generation started"
    /\ pc' = "queued"
    /\ UNCHANGED <<config, prepared, problem1, problem2, final_problem, response,
                   solver_calls, cancel_accepted, job_status, previous>>

\* GET /schedule/status/{job_id}: 404, or the fields of the record
get_job_status(job_id) ==
    /\ LoopFree
    /\ IF job_id \in DOMAIN running_jobs
       THEN /\ job_status' = running_jobs[job_id]
            /\ http_reply' = "200 JobStatus"
       ELSE /\ http_reply' = "404 Job not found"
            /\ UNCHANGED job_status
    /\ UNCHANGED <<config, pc, prepared, problem1, problem2, final_problem, response,
                   solver_calls, running_jobs, cancel_accepted, previous>>

\* a variant of cancel_job that cancels whatever the status
cancel_job_AnyStatus(job_id) ==
    /\ LoopFree
    /\ IF job_id \notin DOMAIN running_jobs
       THEN /\ http_reply' = "404 Job not found"
            /\ UNCHANGED <<running_jobs, cancel_accepted>>
       ELSE /\ running_jobs' =
                  [running_jobs EXCEPT ![job_id].status = "cancelled",
                                       ![job_id].updated_at = @ + 1]
            /\ cancel_accepted' = cancel_accepted \cup {job_id}
            /\ http_reply' = "200 Job cancelled"
    /\ UNCHANGED <<config, pc, prepared, problem1, problem2, final_problem, response,
                   solver_calls, job_status, previous>>

\* DELETE /schedule/{job_id}: 404, "Job cancelled" or "Job cannot be cancelled"
cancel_job(job_id) ==
    /\ LoopFree
    /\ IF job_id \notin DOMAIN running_jobs
       THEN /\ http_reply' = "404 Job not found"
            /\ UNCHANGED <<running_jobs, cancel_accepted>>
       ELSE IF running_jobs[job_id].status \in {"pending", "running"}
       THEN /\ running_jobs' =
                  [running_jobs EXCEPT ![job_id].status = "cancelled",
                                       ![job_id].updated_at = @ + 1]
            /\ cancel_accepted' = cancel_accepted \cup {job_id}
            /\ http_reply' = "200 Job cancelled"
       ELSE /\ http_reply' = "200 Job cannot be cancelled"
            /\ UNCHANGED <<running_jobs, cancel_accepted>>
    /\ UNCHANGED <<config, pc, prepared, problem1, problem2, final_problem, response,
                   solver_calls, job_status, previous>>

\* run_scheduler up to the call of run_prime_scheduler
run_scheduler(job_id) ==
    /\ pc = "queued"
    /\ job_id \in DOMAIN running_jobs
    /\ running_jobs' = [running_jobs EXCEPT ![job_id].status = "running",
                                             ![job_id].progress = 4,
                                             ![job_id].updated_at = @ + 1]
    /\ pc' = "start"
    /\ UNCHANGED <<config, prepared, problem1, problem2, final_problem, response,
                   solver_calls, cancel_accepted, job_status, http_reply, previous>>

\* a variant of run_scheduler_update that forgets the result of a success
run_scheduler_update_NoResult(job_id) ==
    /\ pc = "done"
    /\ job_id \in DOMAIN running_jobs
    /\ running_jobs' =
          [running_jobs EXCEPT ![job_id].status =
                                   IF response.success THEN "completed" ELSE "failed",
                               ![job_id].error =
                                   IF response.success THEN None ELSE "Unknown solver error",
                               ![job_id].updated_at = @ + 1]
    /\ pc' = "finished"
    /\ UNCHANGED <<config, prepared, problem1, problem2, final_problem, response,
                   solver_calls, cancel_accepted, job_status, http_reply, previous>>

\* a variant of run_scheduler_update that records a failure's error only
run_scheduler_update_NoFailedStatus(job_id) ==
    /\ pc = "done"
    /\ job_id \in DOMAIN running_jobs
    /\ running_jobs' =
          IF response.success
          THEN [running_jobs EXCEPT ![job_id].status = "completed",
                                    ![job_id].progress = 10,
                                    ![job_id].result = {response},
                                    ![job_id].updated_at = @ + 1]
          ELSE [running_jobs EXCEPT ![job_id].error = "Unknown solver error",
                                    ![job_id].updated_at = @ + 1]
    /\ pc' = "finished"
    /\ UNCHANGED <<config, prepared, problem1, problem2, final_problem, response,
                   solver_calls, cancel_accepted, job_status, http_reply, previous>>

\* run_scheduler after run_prime_scheduler has returned: the final status
run_scheduler_update(job_id) ==
    /\ pc = "done"
    /\ job_id \in DOMAIN running_jobs
    /\ running_jobs' =
          IF response.success
          THEN [running_jobs EXCEPT ![job_id].status = "completed",
                                    ![job_id].progress = 10,
                                    ![job_id].result = {response},
                                    ![job_id].updated_at = @ + 1]
          ELSE [running_jobs EXCEPT ![job_id].status = "failed",
                                    ![job_id].error =
                                        IF response.error # None THEN response.error
                                        ELSE "Unknown solver error",
                                    ![job_id].updated_at = @ + 1]
    /\ pc' = "finished"
    /\ UNCHANGED <<config, prepared, problem1, problem2, final_problem, response,
                   solver_calls, cancel_accepted, job_status, http_reply, previous>>

(***************************************************************************)
(* The returned schedule.                                                  *)
(***************************************************************************)
Returned == pc = "done" /\ response.success
AdoptedPhase1 == pc = "done" /\ problem1 = "optimal"
AdoptedPhase2 == pc = "done" /\ problem1 # "optimal" /\ SolutionPresent(problem2)

\* the rows of one (day index, post)
RowsOf(s, t) == {r \in response.schedule : r.date = date_list[s] /\ r.post = t}

\* the doctors with a row of post t on day index s
DoctorsOn(s, t) == {r.doctor : r \in RowsOf(s, t)}

\* the doctors eligible for post t on day index s
Eligible(s, t) == {d \in D : t \in posts_by_day(s) /\ Available(d, s, t)}

\* the request holds an explicit record (d, date of s, t) with this value
HasRecord(d, s, t, a) ==
    \E r \in config.availability :
        r.doctor_id = d /\ r.date = date_list[s] /\ r.post = t /\ r.available = a

(***************************************************************************)
(* C1: in every returned schedule each doctor has at most one assignment   *)
(* row per date, also where one doctor is the only eligible doctor for two *)
(* posts of the same day.                                                  *)
(***************************************************************************)
C1_AtMostOnePerDay ==
    Returned =>
        \A r1 \in response.schedule : \A r2 \in response.schedule :
            (r1.doctor = r2.doctor /\ r1.date = r2.date) => r1 = r2

\* a doctor is the only eligible doctor for two posts of one day and is
\* assigned to one of them
C1_Witness ==
    /\ Returned
    /\ \E d \in D : \E s \in S : \E t1 \in posts_by_day(s) : \E t2 \in posts_by_day(s) :
          /\ t1 # t2
          /\ Eligible(s, t1) = {d}
          /\ Eligible(s, t2) = {d}
          /\ DoctorsOn(s, t1) = {d}

(***************************************************************************)
(* C2: every row (doctor, date, post) of a returned schedule has           *)
(* availability true in the availability table after defaulting; no row is *)
(* emitted where availability is false or absent.                          *)
(***************************************************************************)
C2_RowsAvailable ==
    Returned =>
        \A r \in response.schedule :
            \E s \in S :
                /\ date_list[s] = r.date
                /\ <<r.doctor, s, r.post>> \in DOMAIN availability
                /\ availability[<<r.doctor, s, r.post>>] = TRUE

\* a schedule with a row that rests on an explicit record and a row that
\* rests on the clinic default, while another cell of the table is false
C2_Witness ==
    /\ Returned
    /\ \E d \in D : \E s \in S : \E t \in posts_by_day(s) :
          d \in DoctorsOn(s, t) /\ HasRecord(d, s, t, TRUE)
    /\ \E d \in D : \E s \in S : \E t \in posts_by_day(s) :
          d \in DoctorsOn(s, t) /\ ~HasRecord(d, s, t, TRUE)
    /\ \E c \in DOMAIN availability : availability[c] = FALSE

(***************************************************************************)
(* C3: when the Phase 1 solution is adopted, every (day, post) with at     *)
(* least one eligible doctor has exactly one assignment row.               *)
(***************************************************************************)
C3_Phase1Coverage ==
    AdoptedPhase1 =>
        \A s \in S : \A t \in posts_by_day(s) :
            Eligible(s, t) # {} => Cardinality(RowsOf(s, t)) = 1

\* Phase 1 is adopted with a slot that two doctors are eligible for
C3_Witness ==
    /\ AdoptedPhase1
    /\ \E s \in S : \E t \in posts_by_day(s) :
          Cardinality(Eligible(s, t)) >= 2 /\ Cardinality(RowsOf(s, t)) = 1

(***************************************************************************)
(* C4: when the Phase 2 solution is adopted, every (day, post) with an     *)
(* eligible doctor is filled by exactly one doctor or left unfilled (its   *)
(* slack taken); Phase 2 never assigns two or more doctors to one post on  *)
(* one day.                                                                *)
(***************************************************************************)
C4_Phase2AtMostOneDoctorPerPost ==
    AdoptedPhase2 =>
        \A s \in S : \A t \in posts_by_day(s) :
            Eligible(s, t) # {} => Cardinality(RowsOf(s, t)) <= 1

(***************************************************************************)
(* C5: in every returned schedule, for every weekend pair the doctors with *)
(* a Standby Oncall row on the Saturday are the doctors with one on the    *)
(* Sunday, and there is at most one.                                       *)
(***************************************************************************)
C5_StandbyPairing ==
    Returned =>
        \A w \in W :
            /\ DoctorsOn(sat_day(w), StandbyOncall) = DoctorsOn(sun_day(w), StandbyOncall)
            /\ Cardinality(DoctorsOn(sat_day(w), StandbyOncall)) <= 1

\* the weekends on one of whose days doctor d has a Standby Oncall row
StandbyWeekends(d) ==
    {w \in W : d \in DoctorsOn(sat_day(w), StandbyOncall) \cup DoctorsOn(sun_day(w), StandbyOncall)}

(***************************************************************************)
(* C6: in every returned schedule no doctor has a Standby Oncall row in    *)
(* two adjacent weekend pairs, counting a row on either day.               *)
(***************************************************************************)
C6_StandbyCooldown ==
    Returned =>
        \A d \in D : \A w \in W :
            ~(w \in StandbyWeekends(d) /\ (w + 1) \in StandbyWeekends(d))

(***************************************************************************)
(* C7: in every returned schedule no doctor has Standby Oncall rows in     *)
(* more than one weekend pair of the horizon, counting a row on either     *)
(* day.                                                                    *)
(***************************************************************************)
C7_StandbyHorizonCap ==
    Returned => \A d \in D : Cardinality(StandbyWeekends(d)) <= 1

(***************************************************************************)
(* C8: in every returned schedule, for every unit u and every date of the  *)
(* horizon whose weekday is a clinic day of u, exactly one row with post   *)
(* clinic:u exists on that date and its doctor is a member of u.           *)
(***************************************************************************)
C8_ClinicCoverage ==
    Returned =>
        \A u \in DOMAIN clinic_days : \A s \in S :
            Weekday(date_list[s]) \in clinic_days[u] =>
                /\ Cardinality(RowsOf(s, ClinicPost(u))) = 1
                /\ \A d \in DoctorsOn(s, ClinicPost(u)) : doctor_info[d].unit = u

\* C8 as amended: when the Phase 1 solution is adopted, for every unit u
\* and every Monday-to-Friday date of the horizon that is a clinic day of u
\* and on which a member of u is available for clinic:u, exactly one row
\* with post clinic:u exists on that date and its doctor is a member of u.
C8_ClinicCoveragePhase1 ==
    AdoptedPhase1 =>
        \A u \in DOMAIN clinic_days : \A s \in S :
            ( /\ Weekday(date_list[s]) \in clinic_days[u]
              /\ Weekday(date_list[s]) < 5
              /\ \E d \in Eligible(s, ClinicPost(u)) : doctor_info[d].unit = u )
            => /\ Cardinality(RowsOf(s, ClinicPost(u))) = 1
               /\ \A d \in DoctorsOn(s, ClinicPost(u)) : doctor_info[d].unit = u

\* Phase 1 is adopted and a clinic of a clinic day has a member and a
\* doctor of another unit eligible for it
C8_Witness ==
    /\ AdoptedPhase1
    /\ \E u \in DOMAIN clinic_days : \E s \in S :
          /\ Weekday(date_list[s]) \in clinic_days[u]
          /\ \E d \in Eligible(s, ClinicPost(u)) : doctor_info[d].unit = u
          /\ \E d \in Eligible(s, ClinicPost(u)) : doctor_info[d].unit # u
          /\ Cardinality(RowsOf(s, ClinicPost(u))) = 1

(***************************************************************************)
(* C9: no returned schedule contains a clinic:u row for a doctor outside u *)
(* or on a date whose weekday is not a clinic day of u, whatever explicit  *)
(* availability records the request contains.                              *)
(***************************************************************************)
C9_ClinicPostOnlyUnitOnClinicDay ==
    Returned =>
        \A r \in response.schedule : \A u \in DOMAIN clinic_days :
            r.post = ClinicPost(u) =>
                /\ doctor_info[r.doctor].unit = u
                /\ Weekday(r.date) \in clinic_days[u]

(***************************************************************************)
(* C10: in every returned schedule a doctor of category floater has zero   *)
(* assignment rows on on-call posts.                                       *)
(***************************************************************************)
C10_FloaterNoOncall ==
    Returned =>
        \A r \in response.schedule :
            doctor_info[r.doctor].category = "floater" => r.post \notin oncall_posts

\* run_prime_scheduler returned from its try branch (no exception)
ReturnedNormally == pc = "done" /\ response.solver_status # "error"

\* the adopted valuation
FinalValuation == [x |-> final_problem.x, y |-> final_problem.y]

(***************************************************************************)
(* C11: the driver solves Phase 1 first; Phase 2 is built and solved if    *)
(* and only if Phase 1's status is not optimal; the adopted solution is    *)
(* Phase 1's when Phase 1 is optimal and otherwise what Phase 2 returns;   *)
(* the solver is invoked at most twice per request.                        *)
(***************************************************************************)
C11_DriverOrder ==
    /\ solver_calls <= 2
    /\ (pc = "phase2" \/ problem2 # "none") => problem1 \notin {"none", "optimal"}
    /\ ReturnedNormally =>
          IF problem1 = "optimal"
          THEN /\ problem2 = "none"
               /\ solver_calls = 1
               /\ final_problem.status = "optimal"
               /\ \A r \in Problem(FALSE).constraints : Satisfied(r, FinalValuation)
          ELSE /\ problem2 # "none"
               /\ solver_calls = 2
               /\ final_problem.status = problem2
               /\ response.solver_status = problem2

\* Phase 1 is infeasible, Phase 2 is solved and its solution is returned
C11_Witness ==
    /\ ReturnedNormally
    /\ problem1 = "infeasible"
    /\ problem2 = "optimal"
    /\ solver_calls = 2
    /\ response.schedule # {}

\* the (day, post) slots of the horizon that no doctor is eligible for
ZeroEligibleSlots == {st \in S \X AllPostNames : st[2] \in posts_by_day(st[1]) /\ Eligible(st[1], st[2]) = {}}

(***************************************************************************)
(* C12: when some (day, post) of the horizon has zero eligible doctors,    *)
(* Phase 1 is infeasible, the Phase 2 solution is adopted, the slot takes  *)
(* its unit of coverage slack (no row) and every other slot is covered     *)
(* exactly once.                                                           *)
(***************************************************************************)
C12_ZeroEligibleForcesPhase2 ==
    (ReturnedNormally /\ ZeroEligibleSlots # {}) =>
        /\ problem1 = "infeasible"
        /\ AdoptedPhase2
        /\ \A s \in S : \A t \in posts_by_day(s) :
              Cardinality(RowsOf(s, t)) = (IF <<s, t>> \in ZeroEligibleSlots THEN 0 ELSE 1)

\* the weekend pairs with no doctor available for Standby Oncall on both days
UnpairableWeekends ==
    {w \in W : ~\E d \in D : /\ Available(d, sat_day(w), StandbyOncall)
                             /\ Available(d, sun_day(w), StandbyOncall)}

(***************************************************************************)
(* C13: whenever a (day, post) has zero eligible doctors, or a weekend     *)
(* pair has no doctor available for Standby Oncall on both Saturday and    *)
(* Sunday, the warnings list of the response holds a warning for it.       *)
(***************************************************************************)
C13_WarningsInResponse ==
    ReturnedNormally =>
        /\ \A st \in ZeroEligibleSlots : \E m \in response.warnings : m = <<"uncoverable", st>>
        /\ \A w \in UnpairableWeekends : \E m \in response.warnings : m = <<"pairing", w>>

C14_FailureReported ==
    /\ pc \in {"done", "finished"} =>
          /\ response.success <=> response.solver_status \in {"optimal", "optimal_inaccurate"}
          /\ response.solver_status # "error" => response.solver_status = final_problem.status
          /\ response.solver_status \notin {"optimal", "optimal_inaccurate"} =>
                /\ ~response.success
                /\ response.schedule = {}
                /\ response.weekend_assignments = 0
    /\ pc = "finished" /\ response.solver_status \notin {"optimal", "optimal_inaccurate"} =>
          \A job_id \in DOMAIN running_jobs :
              /\ running_jobs[job_id].status = "failed"
              /\ running_jobs[job_id].error \notin {None, ""}
              /\ running_jobs[job_id].result = {}

\* Phase 2 ended with a failure status and the worker has marked the job failed
C14_Witness ==
    /\ pc = "finished"
    /\ final_problem.status \in FailureStatuses
    /\ response.solver_status = final_problem.status
    /\ \E job_id \in DOMAIN running_jobs :
          /\ running_jobs[job_id].status = "failed"
          /\ running_jobs[job_id].error = "Unknown solver error"

\* what the claim calls an invalid request, as far as a request the endpoint
\* accepts can be one: the interval is inverted, a doctor's category is
\* unknown, or a doctor's unit is not among the units
InvalidRequest ==
    \/ config.roster_start > config.roster_end
    \/ \E d \in DOMAIN config.doctors :
          \/ config.doctors[d].category \notin Categories
          \/ config.doctors[d].unit \notin DOMAIN config.units

\* C16: an invalid request produces no schedule: the response is not a success
\* and the job ends failed with its error set and no result.
C16_InvalidRequestRejected ==
    InvalidRequest =>
        /\ pc \in {"done", "finished"} => ~response.success /\ response.schedule = {}
        /\ pc = "finished" =>
              \A job_id \in DOMAIN running_jobs :
                  /\ running_jobs[job_id].status = "failed"
                  /\ running_jobs[job_id].error # None
                  /\ running_jobs[job_id].result = {}

\* C17: cancelled is terminal: no step changes the status of a job whose
\* status is cancelled.
C17_CancelledIsTerminal ==
    [][\A job_id \in DOMAIN running_jobs :
          running_jobs[job_id].status = "cancelled" =>
              /\ job_id \in DOMAIN running_jobs'
              /\ running_jobs'[job_id].status = "cancelled"]_vars

\* C18: the result of a job that cancel_job has cancelled is never populated.
C18_CancelledJobHasNoResult ==
    \A job_id \in cancel_accepted :
        /\ job_id \in DOMAIN running_jobs
        /\ running_jobs[job_id].result = {}

\* C19: every record get_job_status returns is consistent: its status is
\* completed exactly when its result is set, and then its progress is 1.0; a
\* failed record has its error set; result and error are never both set.
C19_ObservedRecordConsistent ==
    job_status # NoJobStatus =>
        /\ job_status.status = "completed" <=> job_status.result # {}
        /\ job_status.status = "completed" => job_status.progress = 10
        /\ job_status.status = "failed" => job_status.error # None
        /\ ~(job_status.result # {} /\ job_status.error # None)

\* get_job_status has returned the record of a completed job with its schedule
C19_Witness ==
    /\ pc = "finished"
    /\ job_status.status = "completed"
    /\ job_status.result = {response}
    /\ response.schedule # {}

\* C20: a job starts pending; once the event loop runs its worker and the
\* solver returns or raises, the worker finishes and the job's status is
\* completed, failed or cancelled; a failure, an exception included, leaves
\* the job failed with its error set; no job stays running forever.
C20_JobReachesTerminalStatus ==
    /\ [][\A job_id \in JobIds :
            job_id \notin DOMAIN running_jobs /\ job_id \in DOMAIN running_jobs' =>
                running_jobs'[job_id].status = "pending"]_vars
    /\ [](pc = "finished" /\ ~response.success =>
            \A job_id \in DOMAIN running_jobs :
                /\ running_jobs[job_id].status = "failed"
                /\ running_jobs[job_id].error # None)
    /\ \A job_id \in JobIds :
          /\ (job_id \in DOMAIN running_jobs) ~>
                (/\ pc = "finished"
                 /\ running_jobs[job_id].status \in {"completed", "failed", "cancelled"})
          /\ (job_id \in DOMAIN running_jobs /\ running_jobs[job_id].status = "running") ~>
                ~(job_id \in DOMAIN running_jobs /\ running_jobs[job_id].status = "running")

\* the solve raised and the worker has marked the job failed with the message
C20_Witness ==
    /\ pc = "finished"
    /\ response.solver_status = "error"
    /\ \E job_id \in DOMAIN running_jobs :
          /\ running_jobs[job_id].status = "failed"
          /\ running_jobs[job_id].error = "exception"

\* C21: when the engine is run again on the schedule it returned, and the
\* solver proves its answer in both runs, the second run returns the same set
\* of assignments, whether the first schedule came from Phase 1 or Phase 2.
C21_RerunReturnsSameSchedule ==
    pc = "done" /\ previous.run = 1 /\ previous.exact /\ ExactRun =>
        /\ response.success
        /\ response.schedule = previous.schedule

\* the weekend pairs in which some doctor has the Standby Oncall rows of both days
StandbyHeldWeekends ==
    {w \in W : \E d \in D : DoctorsOn(sat_day(w), StandbyOncall) \cap
                                DoctorsOn(sun_day(w), StandbyOncall) \cap {d} # {}}

\* C22: weekend_assignments of a returned response whose solution the solver
\* proved optimal is the number of weekend pairs in which some doctor holds
\* Standby Oncall on both days, so it never exceeds the number of weekend
\* pairs, in Phase 1 and in Phase 2.
C22_WeekendAssignmentsCountsWeekends ==
    Returned /\ final_problem.status = "optimal" =>
        /\ response.weekend_assignments = Cardinality(StandbyHeldWeekends)
        /\ response.weekend_assignments <= Len(weekend_pairs)

\* the two like doctors of the example: A did Standby in the last 12 months,
\* B did it 800 days ago, and both have both Standby variables of the weekend
ExampleOfC23(A, B) ==
    /\ {A, B} \subseteq D
    /\ doctor_info[A] = doctor_info[B]
    /\ WorkloadData(A).standby_count_12m = 1
    /\ WorkloadData(B) = Workload(0, 0, 800)
    /\ \A w \in W : {SatVar(A, w), SunVar(A, w), SatVar(B, w), SunVar(B, w)} \subseteq XKeys

\* C23: the objective coefficient of every Standby Oncall variable of doctor d
\* (times 5) is lambdaStandby + 5000 with a Standby in the last 12 months,
\* else lambdaStandby + 2000 with one in the last 3 months, else lambdaStandby
\* + max(0, (365 - days) * 5) for days < 365, else max(1, lambdaStandby -
\* min(200, (days - 365) / 5)) for days > 365, else lambdaStandby; and of two
\* like doctors, A with standby_count_12m = 1 and B with 800 days since the
\* last Standby, an optimal schedule gives the Standby rows to B.
C23_StandbyCoefficient ==
    /\ pc = "phase1" =>
          \A c \in {q \in XKeys : q[3] = StandbyOncall} :
              LET wd == WorkloadData(c[1])
                  days == wd.days_since_last_standby
                  terms == {t \in Problem(FALSE).penalty_terms :
                               t.key = c /\ t.name = <<"standby", 0, 0>>}
              IN /\ terms = {t \in Problem(TRUE).penalty_terms :
                                t.key = c /\ t.name = <<"standby", 0, 0>>}
                 /\ Cardinality(terms) = 1
                 /\ \A t \in terms :
                       t.weight5 =
                          IF wd.standby_count_12m > 0 THEN 5 * lambda_standby + 25000
                          ELSE IF wd.standby_count_3m > 0 THEN 5 * lambda_standby + 10000
                          ELSE IF days < 365 THEN 5 * lambda_standby + 25 * (365 - days)
                          ELSE IF days > 365
                               THEN Max(5, 5 * lambda_standby - Min(1000, days - 365))
                          ELSE 5 * lambda_standby
    /\ Returned /\ final_problem.status = "optimal" =>
          \A A \in D : \A B \in D :
              ExampleOfC23(A, B) =>
                  \A w \in W :
                      /\ DoctorsOn(sat_day(w), StandbyOncall) = {B}
                      /\ DoctorsOn(sun_day(w), StandbyOncall) = {B}

\* the example has been solved to optimality and B holds the Standby rows
C23_Witness ==
    /\ Returned
    /\ final_problem.status = "optimal"
    /\ W # {}
    /\ ExampleOfC23("d1", "d7")
    /\ DoctorsOn(sat_day(0), StandbyOncall) = {"d7"}

\* the days of the horizon that are in some weekend pair
PairedDays == UNION {{weekend_pairs[i][1], weekend_pairs[i][2]} : i \in 1..Len(weekend_pairs)}

\* the constraints of 346-396: link, pairing, cooldown, cap, multiple weekends
StandbyRowKinds ==
    {"y<=sat", "y<=sun", "y>=sat+sun-1", "y==0", "sat==sun", "cooldown", "cap",
     "multiple_weekend"}

\* C24: weekend_pairs is exactly the index pairs (s, s + 1) of a Saturday
\* followed by a Sunday, in increasing order; a horizon of one weekday has no
\* pair, a first day that is a Sunday and a last day that is a Saturday are in
\* no pair, and no link, pairing, cooldown or cap constraint of either phase
\* mentions a Standby Oncall variable of a day that is in no pair
C24_WeekendPairsAreSaturdaySunday ==
    pc # "start" =>
        LET last == Cardinality(S) - 1
        IN /\ \A i \in 1..Len(weekend_pairs) :
                  /\ weekend_pairs[i][1] \in S
                  /\ weekend_pairs[i][2] \in S
                  /\ weekend_pairs[i][2] = weekend_pairs[i][1] + 1
                  /\ Weekday(date_list[weekend_pairs[i][1]]) = 5
                  /\ Weekday(date_list[weekend_pairs[i][2]]) = 6
           /\ \A s \in S :
                  (s + 1) \in S /\ Weekday(date_list[s]) = 5 /\ Weekday(date_list[s + 1]) = 6
                  => \E i \in 1..Len(weekend_pairs) : weekend_pairs[i] = <<s, s + 1>>
           /\ \A i \in 1..Len(weekend_pairs) : \A j \in 1..Len(weekend_pairs) :
                  i < j => weekend_pairs[i][1] < weekend_pairs[j][1]
           /\ last = 0 => weekend_pairs = <<>>
           /\ Weekday(date_list[0]) = 6 => 0 \notin PairedDays
           /\ Weekday(date_list[last]) = 5 => last \notin PairedDays
           /\ pc = "phase1" =>
                  \A RELAX \in BOOLEAN :
                      \A c \in {q \in XKeys : q[3] = StandbyOncall /\ q[2] \notin PairedDays} :
                          \A r \in Problem(RELAX).constraints :
                              r.name[1] \in StandbyRowKinds
                              => c \notin (r.xpos \cup r.xneg)

\* a horizon that starts on a Sunday and ends on a Saturday, with a weekend
\* pair in between: the doctor has a Standby Oncall variable on both lone days
C24_Witness ==
    /\ pc = "phase1"
    /\ Weekday(date_list[0]) = 6
    /\ Weekday(date_list[Cardinality(S) - 1]) = 5
    /\ Len(weekend_pairs) = 1
    /\ <<"d1", 0, StandbyOncall>> \in XKeys
    /\ <<"d1", Cardinality(S) - 1, StandbyOncall>> \in XKeys

\* the records of the request dated on day s for doctor d and post t
RecordsFor(d, s, t) ==
    {r \in config.availability :
        r.doctor_id = d /\ r.date = date_list[s] /\ r.post = t}

\* C25: for every doctor d, day s and post t of that day, the availability
\* index has the value of the explicit record when there is one (also when it
\* says false for a unit member's clinic post on the unit's clinic weekday);
\* with no record it is true exactly when t is clinic:u, d is in unit u and
\* the weekday of s is a clinic day of u; records dated outside the horizon
\* leave no entry and change nothing
C25_AvailabilityIndex ==
    pc # "start" =>
        /\ \A d \in D : \A s \in S : \A t \in posts_by_day(s) :
               IF RecordsFor(d, s, t) # {}
               THEN \A r \in RecordsFor(d, s, t) : Available(d, s, t) = r.available
               ELSE Available(d, s, t) =
                       (\E u \in DOMAIN config.units :
                           /\ t = ClinicPost(u)
                           /\ config.doctors[d].unit = u
                           /\ Weekday(date_list[s]) \in config.units[u])
        /\ \A k \in DOMAIN availability : k[2] \in S
        /\ availability =
              AvailabilityIndex(
                  [config EXCEPT !.availability =
                      {r \in @ : r.date \in config.roster_start..config.roster_end}],
                  date_list)

\* a request with a record that says true on a day outside the horizon and a
\* record that says false for a unit member's clinic post on a clinic day
C25_Witness ==
    /\ pc = "phase1"
    /\ \E r \in config.availability :
           r.date \notin config.roster_start..config.roster_end /\ r.available
    /\ \E d \in D : \E s \in S : \E u \in DOMAIN config.units :
           /\ config.doctors[d].unit = u
           /\ Weekday(date_list[s]) \in config.units[u]
           /\ ClinicPost(u) \in posts_by_day(s)
           /\ \E r \in RecordsFor(d, s, ClinicPost(u)) : ~r.available
           /\ ~Available(d, s, ClinicPost(u))

\* y[d, w] of a valuation is as the Standby Oncall variables of the weekend say
WeekendIndicatorLinked(v, d, w) ==
    IF SatVar(d, w) \in XKeys /\ SunVar(d, w) \in XKeys
    THEN <<d, w>> \in v.y <=> (SatVar(d, w) \in v.x /\ SunVar(d, w) \in v.x)
    ELSE <<d, w>> \notin v.y

\* C26: in every feasible solution of the Phase 1 and of the Phase 2 model,
\* for every doctor d and weekend w: when both Standby Oncall variables of
\* (d, w) exist, y[d, w] = 1 exactly when d holds Standby Oncall on both
\* days; when at most one of them exists, y[d, w] = 0; and so for every
\* solution the solver hands back
C26_WeekendIndicatorIsConjunction ==
    /\ pc = "phase1" =>
          \A RELAX \in BOOLEAN : \A v \in FeasibleSet(Problem(RELAX)) :
              \A d \in D : \A w \in W : WeekendIndicatorLinked(v, d, w)
    /\ pc = "done" /\ SolutionPresent(final_problem.status) =>
          \A d \in D : \A w \in W : WeekendIndicatorLinked(final_problem, d, w)

\* a returned schedule in which one doctor holds a whole Standby weekend and
\* another holds the only Standby variable they have on some weekend
C26_Witness ==
    /\ Returned
    /\ \E d \in D : \E w \in W :
           /\ SatVar(d, w) \in XKeys /\ SunVar(d, w) \in XKeys
           /\ <<d, w>> \in final_problem.y
    /\ \E d \in D : \E w \in W :
           /\ SatVar(d, w) \in XKeys
           /\ SunVar(d, w) \notin XKeys
           /\ SatVar(d, w) \in final_problem.x
           /\ <<d, w>> \notin final_problem.y

\* doctor d holds Standby Oncall on day s and on day s + 1, a weekend pair
HoldsStandbyPair(v, d, s) ==
    /\ \E i \in 1..Len(weekend_pairs) : weekend_pairs[i] = <<s, s + 1>>
    /\ <<d, s, StandbyOncall>> \in v.x
    /\ <<d, s + 1, StandbyOncall>> \in v.x

\* the rest rows of (d, s) that the valuation misses by one: rest_violation[d, s]
\* is forced to 1 and lambda_rest is charged
RestViolationsCharged(v, d, s) ==
    {r \in RestRows(XKeys) : r.name = <<"rest", <<d, s>>>> /\ Shortfall(r, v) = 1}

\* C27: in a returned schedule, a doctor who holds Standby Oncall on both days
\* of a weekend pair is charged no rest violation for that pair, and a doctor
\* who holds on-call posts on two consecutive days in any other way has
\* rest_violation[d, s] forced to 1
C27_CarveOutPreservesRestRule ==
    Returned =>
        \A d \in D : \A s \in S :
            (/\ (s + 1) \in S
             /\ OncallVars(final_problem.x, d, s) # {}
             /\ OncallVars(final_problem.x, d, s + 1) # {})
            => IF HoldsStandbyPair(final_problem, d, s)
               THEN RestViolationsCharged(final_problem, d, s) = {}
               ELSE RestViolationsCharged(final_problem, d, s) # {}

\* C28: a record whose status is completed or failed never changes again in
\* any field; a step of cancel_job or get_job_status (the steps that leave
\* the worker where it is) changes no record that is completed, failed or
\* cancelled, cancels only a pending or running job, and changes no record at
\* all when it answers 404 or "Job cannot be cancelled"
C28_TerminalRecordsAbsorbing ==
    [][/\ \A j \in DOMAIN running_jobs :
              running_jobs[j].status \in {"completed", "failed"}
              => j \in DOMAIN running_jobs' /\ running_jobs'[j] = running_jobs[j]
       /\ pc' = pc =>
              /\ \A j \in DOMAIN running_jobs :
                     running_jobs[j].status = "cancelled"
                     => j \in DOMAIN running_jobs' /\ running_jobs'[j] = running_jobs[j]
              /\ http_reply' \in {"404 Job not found", "200 Job cannot be cancelled"}
                 => running_jobs' = running_jobs
              /\ http_reply' = "200 Job cancelled"
                 => \E j \in DOMAIN running_jobs :
                        /\ running_jobs[j].status \in {"pending", "running"}
                        /\ running_jobs'[j].status = "cancelled"]_vars

\* cancel_job has been called on a completed job and has refused
C28_Witness ==
    /\ http_reply = "200 Job cannot be cancelled"
    /\ \E j \in DOMAIN running_jobs :
           running_jobs[j].status = "completed" /\ running_jobs[j].result # {}

\* the weekends doctor d holds in a valuation
WeekendsHeld(v, d) == {w \in W : <<d, w>> \in v.y}

\* C29: in every feasible solution of either phase each doctor holds at most
\* one Standby weekend (the cap is hard), so in every optimal solution of
\* either phase, and in every returned solution proven optimal,
\* multiple_weekend_penalty[d] is 0 for every doctor and its term adds nothing
C29_MultipleWeekendPenaltyIsZero ==
    /\ pc = "phase1" =>
          \A RELAX \in BOOLEAN :
              /\ \A v \in FeasibleSet(Problem(RELAX)) :
                     \A d \in D : Cardinality(WeekendsHeld(v, d)) <= 1
              /\ \A v \in OptimalSet(Problem(RELAX)) :
                     \A r \in MultipleWeekendRows :
                         OptimalAux(r, v) = {0} /\ AuxCost(r, v) = 0
    /\ pc = "done" /\ final_problem.status = "optimal" =>
          \A r \in MultipleWeekendRows :
              OptimalAux(r, final_problem) = {0} /\ AuxCost(r, final_problem) = 0

\* a schedule proven optimal over a horizon of several weekends in which a
\* doctor holds a Standby weekend
C29_Witness ==
    /\ pc = "done"
    /\ final_problem.status = "optimal"
    /\ Len(weekend_pairs) >= 2
    /\ MultipleWeekendRows # {}
    /\ \E d \in D : WeekendsHeld(final_problem, d) # {}

\* the gap rows of a model
GapRowsOf(prob) == {r \in prob.constraints : r.name[1] = "gap"}

\* C30: z_gap[d, s] is bounded from below only, so with lambda_gap > 0, for
\* every feasible schedule of either phase and every emitted gap row, the
\* value 1 is allowed and is the only one that minimises the objective,
\* whether or not the doctor is on call on day s and day s + 2; the gap terms
\* add the same amount, -lambda_gap per emitted row, to every feasible
\* schedule; and so for every returned solution proven optimal
C30_GapRewardIsConstant ==
    /\ lambda_gap > 0
    /\ pc = "phase1" =>
          \A RELAX \in BOOLEAN :
              LET prob == Problem(RELAX)
                  gaps == GapRowsOf(prob)
              IN \A v \in FeasibleSet(prob) :
                     /\ \A r \in gaps :
                            /\ 1 \in AuxValues(r, v)
                            /\ OptimalAux(r, v) = {1}
                            /\ AuxCost(r, v) = 0 - lambda_gap
                     /\ SumOver([r \in gaps |-> AuxCost(r, v)], gaps)
                        = 0 - lambda_gap * Cardinality(gaps)
    /\ pc = "done" /\ final_problem.status = "optimal" =>
          \A r \in GapRows(XKeys) : OptimalAux(r, final_problem) = {1}

\* a schedule proven optimal with a gap row of a doctor who is not on call on
\* both of its days: the row allows z_gap = 0 and the minimiser takes 1
C30_Witness ==
    /\ pc = "done"
    /\ final_problem.status = "optimal"
    /\ \E r \in GapRows(XKeys) :
           /\ Cardinality(r.xpos \cap final_problem.x) <= 1
           /\ 0 \in AuxValues(r, final_problem)
           /\ OptimalAux(r, final_problem) = {1}

Next ==
    \/ Prepare
    \/ SolvePhase1Optimal
    \/ SolvePhase1Infeasible
    \/ SolvePhase1TimeLimit
    \/ SolvePhase2Optimal
    \/ SolvePhase2TimeLimit
    \/ SolvePhase2Failure
    \/ SolveRaises

Spec == Init /\ [][Next]_vars

\* the engine called on a Standby-only request
StandbySpec == InitStandby /\ [][Next]_vars

InputSpec == InitInput /\ [][Next]_vars

GapSpec == InitGap /\ [][Next]_vars

NextRerun ==
    \/ Next
    \/ Rerun

\* the engine called on a request and then on its own output
RerunSpec == InitRerun /\ [][NextRerun]_vars

\* the steps of the background task
WorkerNext ==
    \/ \E job_id \in JobIds : run_scheduler(job_id)
    \/ Prepare
    \/ SolveRaises
    \/ SolvePhase1TimeLimit
    \/ SolvePhase2TimeLimit
    \/ SolvePhase2Failure
    \/ SolvePhase1Infeasible
    \/ SolvePhase1Optimal
    \/ SolvePhase2Optimal
    \/ \E job_id \in JobIds : run_scheduler_update(job_id)

NextJob ==
    \/ \E job_id \in JobIds : generate_schedule(job_id)
    \/ \E job_id \in RequestedIds : get_job_status(job_id)
    \/ \E job_id \in RequestedIds : cancel_job(job_id)
    \/ WorkerNext

\* the service: a request is posted, the handlers and the worker interleave
JobSpec == InitJob /\ [][NextJob]_vars

\* the event loop runs the queued background task, and every solve returns
\* (maximumSeconds) or raises
JobLiveSpec == InitJob /\ [][NextJob]_vars /\ WF_vars(WorkerNext)

====
